---------------------------- MODULE Spec2Model ----------------------------
(***************************************************************************)
(* Model of the per-account ledger state machine of the payments engine    *)
(* (src/src/client.rs): one Client owns the balances available, held and   *)
(* total, the locked flag, the map of deposits and the map of live         *)
(* disputes; deposit, withdraw, dispute, resolve and chargeback are its    *)
(* only mutators.                                                          *)
(*                                                                         *)
(* Money.  A Decimal is modelled as an integer number of units of the      *)
(* smallest amount in play.  rust_decimal adds and subtracts exactly as    *)
(* long as the result fits its 96-bit mantissa, and its += and -= panic    *)
(* ("Addition overflowed", "Subtraction overflowed") when it does not.     *)
(* DecimalMax stands for Decimal::MAX: AddAssign and SubAssign are exact   *)
(* within -DecimalMax..DecimalMax and panic outside.  The balances of Spec *)
(* stay inside that range (MaxBalance); SpecRange deposits amounts up to   *)
(* DecimalMax.                                                             *)
(*                                                                         *)
(* Result<(), ClientTransactionError> is modelled as a record with a field *)
(* kind ("Ok" or the name of the error variant) and the variant's fields.  *)
(* A mutator, which takes &mut self, is modelled as an operator from the   *)
(* client before the call to the pair (result, client after the call).     *)
(***************************************************************************)
EXTENDS Integers, FiniteSets, Sequences, TLC

(***************************************************************************)
(* Bounds of the model.                                                    *)
(***************************************************************************)
\* transaction ids are 1..MaxTx
MaxTx == 2
\* deposit and withdrawal amounts are 1..MaxAmount
MaxAmount == 2
\* a deposit is only attempted while it keeps total <= MaxBalance
MaxBalance == 4
\* the largest Decimal of the model (it stands for Decimal::MAX, 2^96 - 1)
DecimalMax == 15

\* the client id the unit tests construct their account with
TestClientId == 1

TxIds == 1..MaxTx
Amounts == 1..MaxAmount

VARIABLES
    clients,      \* client id -> Client, the accounts that exist
    last,         \* the last mutator call: op, client, arguments, result and
                  \* the account as it was before the call
    recorded,     \* history: <<client, tx>> -> the amount deposits[tx] held when
                  \* the dispute of tx that is still open was made
    chargedback,  \* history: the <<client, tx>> of every successful chargeback
    phase,        \* where process_transactions is: "read" (the loop over the
                  \* rows), "report" (the input is exhausted), "done" (the
                  \* report is written), "aborted" (a panic), "failed" (an
                  \* error was returned); "account" in the
                  \* specifications of a single account
    nread,        \* the number of rows read so far
    report,       \* the records written to the output
    solo,         \* history: client id -> the account obtained by applying the
                  \* rows of that client, and no others, to a fresh account
    failed        \* history: a mutator has returned an error in this run

ledger_vars == <<phase, nread, report, solo, failed>>

vars == <<clients, last, recorded, chargedback, phase, nread, report, solo,
          failed>>

(***************************************************************************)
(* HashMap<u32, Decimal>                                                   *)
(***************************************************************************)
EmptyMap == [k \in {} |-> 0]

Insert(m, k, v) == [x \in (DOMAIN m) \cup {k} |-> IF x = k THEN v ELSE m[x]]

Remove(m, k) == [x \in (DOMAIN m) \ {k} |-> m[x]]

(***************************************************************************)
(* ClientTransactionError (the variants the account returns) and Ok(())    *)
(***************************************************************************)
Ok == [kind |-> "Ok"]

AccountLocked(client_id) ==
    [kind |-> "AccountLocked", client_id |-> client_id]

AccountAlreadyLocked(client_id) ==
    [kind |-> "AccountAlreadyLocked", client_id |-> client_id]

InsufficientAvailableFunds(client_id) ==
    [kind |-> "InsufficientAvailableFunds", client_id |-> client_id]

InsufficientHeldFunds(client_id, action) ==
    [kind |-> "InsufficientHeldFunds", client_id |-> client_id, action |-> action]

UnknownTransaction(client_id, tx_id) ==
    [kind |-> "UnknownTransaction", client_id |-> client_id, tx_id |-> tx_id]

AlreadyInDispute(client_id, tx_id) ==
    [kind |-> "AlreadyInDispute", client_id |-> client_id, tx_id |-> tx_id]

NotInDispute(client_id, tx_id) ==
    [kind |-> "NotInDispute", client_id |-> client_id, tx_id |-> tx_id]

Err(e, self) == [result |-> e, client |-> self]

Done(self) == [result |-> Ok, client |-> self]

(***************************************************************************)
(* Decimal += and -= on a field of the account.  r is the call so far: its *)
(* result is Ok until a statement panics, and the statements after a panic *)
(* are not executed.                                                       *)
(***************************************************************************)
Fits(x) == -DecimalMax <= x /\ x <= DecimalMax

Panic(message) == [kind |-> "Panic", message |-> message]

AddAssign(r, field, amount) ==
    IF r.result # Ok THEN r
    ELSE IF Fits(r.client[field] + amount)
    THEN [r EXCEPT !.client[field] = @ + amount]
    ELSE [r EXCEPT !.result = Panic("Addition overflowed")]

SubAssign(r, field, amount) ==
    IF r.result # Ok THEN r
    ELSE IF Fits(r.client[field] - amount)
    THEN [r EXCEPT !.client[field] = @ - amount]
    ELSE [r EXCEPT !.result = Panic("Subtraction overflowed")]

\* a statement that cannot panic (an insert into or a removal from a map, an
\* assignment), executed unless the call has panicked
Then(r, client) == IF r.result # Ok THEN r ELSE Done(client)

(***************************************************************************)
(* Client                                                                  *)
(***************************************************************************)
new(id) ==
    [ id |-> id,
      available |-> 0,
      held |-> 0,
      total |-> 0,
      locked |-> FALSE,
      deposit_transactions |-> EmptyMap,
      disputed_transactions |-> EmptyMap ]

\* mutant of deposit: the locked check is missing
deposit_unguarded(self, tx_id, amount) ==
    Done([self EXCEPT
            !.available = @ + amount,
            !.total = @ + amount,
            !.deposit_transactions = Insert(@, tx_id, amount)])

deposit(self, tx_id, amount) ==
    IF self.locked THEN Err(AccountLocked(self.id), self)
    ELSE LET a == AddAssign(Done(self), "available", amount)
             t == AddAssign(a, "total", amount)
         IN  Then(t, [t.client EXCEPT
                        !.deposit_transactions = Insert(@, tx_id, amount)])

\* mutant of withdraw: total is not reduced
withdraw_keeps_total(self, amount) ==
    IF self.locked THEN Err(AccountLocked(self.id), self)
    ELSE IF self.available < amount
    THEN Err(InsufficientAvailableFunds(self.id), self)
    ELSE Done([self EXCEPT !.available = @ - amount])

\* mutant of withdraw: available is reduced before the sufficiency check
withdraw_deducts_first(self, amount) ==
    IF self.locked THEN Err(AccountLocked(self.id), self)
    ELSE IF self.available < amount
    THEN Err(InsufficientAvailableFunds(self.id),
             [self EXCEPT !.available = @ - amount])
    ELSE Done([self EXCEPT
                 !.available = @ - amount,
                 !.total = @ - amount])

\* mutant of withdraw: the sufficiency check reads total, so held funds count
withdraw_from_total(self, amount) ==
    IF self.locked THEN Err(AccountLocked(self.id), self)
    ELSE IF self.total < amount
    THEN Err(InsufficientAvailableFunds(self.id), self)
    ELSE Done([self EXCEPT
                 !.available = @ - amount,
                 !.total = @ - amount])

\* mutant of withdraw: the sufficiency check comes before the locked check
withdraw_checks_funds_first(self, amount) ==
    IF self.available < amount
    THEN Err(InsufficientAvailableFunds(self.id), self)
    ELSE IF self.locked THEN Err(AccountLocked(self.id), self)
    ELSE Done([self EXCEPT
                 !.available = @ - amount,
                 !.total = @ - amount])

\* mutant of withdraw: no check of the available funds
withdraw_overdraws(self, amount) ==
    IF self.locked THEN Err(AccountLocked(self.id), self)
    ELSE Done([self EXCEPT !.available = @ - amount, !.total = @ - amount])

withdraw(self, amount) ==
    IF self.locked THEN Err(AccountLocked(self.id), self)
    ELSE IF self.available < amount
    THEN Err(InsufficientAvailableFunds(self.id), self)
    ELSE SubAssign(SubAssign(Done(self), "available", amount), "total", amount)

\* mutant of dispute: the AlreadyInDispute check is missing
dispute_unchecked(self, tx_id) ==
    IF self.locked THEN Err(AccountLocked(self.id), self)
    ELSE IF tx_id \notin DOMAIN self.deposit_transactions
    THEN Err(UnknownTransaction(self.id, tx_id), self)
    ELSE LET amount == self.deposit_transactions[tx_id]
         IN  Done([self EXCEPT
                     !.available = @ - amount,
                     !.held = @ + amount,
                     !.disputed_transactions = Insert(@, tx_id, amount)])

\* mutant of dispute: a dispute needs the amount to be available
dispute_checks_funds(self, tx_id) ==
    IF self.locked THEN Err(AccountLocked(self.id), self)
    ELSE IF tx_id \in DOMAIN self.disputed_transactions
    THEN Err(AlreadyInDispute(self.id, tx_id), self)
    ELSE IF tx_id \notin DOMAIN self.deposit_transactions
    THEN Err(UnknownTransaction(self.id, tx_id), self)
    ELSE LET amount == self.deposit_transactions[tx_id]
         IN  IF self.available < amount
             THEN Err(InsufficientAvailableFunds(self.id), self)
             ELSE Done([self EXCEPT
                          !.available = @ - amount,
                          !.held = @ + amount,
                          !.disputed_transactions = Insert(@, tx_id, amount)])

\* mutant of dispute: the amount leaves available but is not added to held
dispute_forgets_held(self, tx_id) ==
    IF self.locked THEN Err(AccountLocked(self.id), self)
    ELSE IF tx_id \in DOMAIN self.disputed_transactions
    THEN Err(AlreadyInDispute(self.id, tx_id), self)
    ELSE IF tx_id \notin DOMAIN self.deposit_transactions
    THEN Err(UnknownTransaction(self.id, tx_id), self)
    ELSE LET amount == self.deposit_transactions[tx_id]
         IN  Done([self EXCEPT
                     !.available = @ - amount,
                     !.disputed_transactions = Insert(@, tx_id, amount)])

dispute(self, tx_id) ==
    IF self.locked THEN Err(AccountLocked(self.id), self)
    ELSE IF tx_id \in DOMAIN self.disputed_transactions
    THEN Err(AlreadyInDispute(self.id, tx_id), self)
    ELSE IF tx_id \notin DOMAIN self.deposit_transactions
    THEN Err(UnknownTransaction(self.id, tx_id), self)
    ELSE LET amount == self.deposit_transactions[tx_id]
             a == SubAssign(Done(self), "available", amount)
             h == AddAssign(a, "held", amount)
         IN  Then(h, [h.client EXCEPT
                        !.disputed_transactions = Insert(@, tx_id, amount)])

\* mutant of resolve: the body of chargeback, lock included
resolve_locks(self, tx_id) ==
    IF self.locked THEN Err(AccountLocked(self.id), self)
    ELSE IF tx_id \notin DOMAIN self.disputed_transactions
    THEN Err(NotInDispute(self.id, tx_id), self)
    ELSE LET amount == self.disputed_transactions[tx_id]
         IN  IF self.held < amount
             THEN Err(InsufficientHeldFunds(self.id, "resolve"), self)
             ELSE Done([self EXCEPT
                          !.held = @ - amount,
                          !.available = @ + amount,
                          !.locked = TRUE,
                          !.disputed_transactions = Remove(@, tx_id)])

\* mutant of resolve: the amount leaves total instead of returning to available
resolve_reduces_total(self, tx_id) ==
    IF self.locked THEN Err(AccountLocked(self.id), self)
    ELSE IF tx_id \notin DOMAIN self.disputed_transactions
    THEN Err(NotInDispute(self.id, tx_id), self)
    ELSE LET amount == self.disputed_transactions[tx_id]
         IN  IF self.held < amount
             THEN Err(InsufficientHeldFunds(self.id, "resolve"), self)
             ELSE Done([self EXCEPT
                          !.held = @ - amount,
                          !.total = @ - amount,
                          !.disputed_transactions = Remove(@, tx_id)])

\* mutant of resolve: the amount returns to available but stays in held
resolve_keeps_held(self, tx_id) ==
    IF self.locked THEN Err(AccountLocked(self.id), self)
    ELSE IF tx_id \notin DOMAIN self.disputed_transactions
    THEN Err(NotInDispute(self.id, tx_id), self)
    ELSE LET amount == self.disputed_transactions[tx_id]
         IN  IF self.held < amount
             THEN Err(InsufficientHeldFunds(self.id, "resolve"), self)
             ELSE Done([self EXCEPT
                          !.available = @ + amount,
                          !.disputed_transactions = Remove(@, tx_id)])

resolve(self, tx_id) ==
    IF self.locked THEN Err(AccountLocked(self.id), self)
    ELSE IF tx_id \notin DOMAIN self.disputed_transactions
    THEN Err(NotInDispute(self.id, tx_id), self)
    ELSE LET amount == self.disputed_transactions[tx_id]
             h == SubAssign(Done(self), "held", amount)
             a == AddAssign(h, "available", amount)
         IN  IF self.held < amount
             THEN Err(InsufficientHeldFunds(self.id, "resolve"), self)
             ELSE Then(a, [a.client EXCEPT
                             !.disputed_transactions = Remove(@, tx_id)])

\* mutant of chargeback: every live dispute is dropped, not only tx_id
chargeback_clears_disputes(self, tx_id) ==
    IF self.locked THEN Err(AccountAlreadyLocked(self.id), self)
    ELSE IF tx_id \notin DOMAIN self.disputed_transactions
    THEN Err(NotInDispute(self.id, tx_id), self)
    ELSE LET amount == self.disputed_transactions[tx_id]
         IN  IF self.held < amount
             THEN Err(InsufficientHeldFunds(self.id, "chargeback"), self)
             ELSE Done([self EXCEPT
                          !.held = @ - amount,
                          !.total = @ - amount,
                          !.locked = TRUE,
                          !.disputed_transactions = EmptyMap])

\* mutant of chargeback: the account is not locked
chargeback_no_lock(self, tx_id) ==
    IF self.locked THEN Err(AccountAlreadyLocked(self.id), self)
    ELSE IF tx_id \notin DOMAIN self.disputed_transactions
    THEN Err(NotInDispute(self.id, tx_id), self)
    ELSE LET amount == self.disputed_transactions[tx_id]
         IN  IF self.held < amount
             THEN Err(InsufficientHeldFunds(self.id, "chargeback"), self)
             ELSE Done([self EXCEPT
                          !.held = @ - amount,
                          !.total = @ - amount,
                          !.disputed_transactions = Remove(@, tx_id)])

\* mutant of chargeback: the amount is read from the deposit map
chargeback_uses_deposit_amount(self, tx_id) ==
    IF self.locked THEN Err(AccountAlreadyLocked(self.id), self)
    ELSE IF tx_id \notin DOMAIN self.disputed_transactions
    THEN Err(NotInDispute(self.id, tx_id), self)
    ELSE LET amount == self.deposit_transactions[tx_id]
         IN  IF self.held < amount
             THEN Err(InsufficientHeldFunds(self.id, "chargeback"), self)
             ELSE Done([self EXCEPT
                          !.held = @ - amount,
                          !.total = @ - amount,
                          !.locked = TRUE,
                          !.disputed_transactions = Remove(@, tx_id)])

chargeback(self, tx_id) ==
    IF self.locked THEN Err(AccountAlreadyLocked(self.id), self)
    ELSE IF tx_id \notin DOMAIN self.disputed_transactions
    THEN Err(NotInDispute(self.id, tx_id), self)
    ELSE LET amount == self.disputed_transactions[tx_id]
             h == SubAssign(Done(self), "held", amount)
             t == SubAssign(h, "total", amount)
         IN  IF self.held < amount
             THEN Err(InsufficientHeldFunds(self.id, "chargeback"), self)
             ELSE Then(t, [t.client EXCEPT
                             !.locked = TRUE,
                             !.disputed_transactions = Remove(@, tx_id)])

(***************************************************************************)
(* The state after construction: one account, fresh from Client::new.      *)
(***************************************************************************)
Init ==
    /\ clients = [c \in {TestClientId} |-> new(c)]
    /\ last = [op |-> "new", client |-> TestClientId]
    /\ recorded = EmptyMap
    /\ chargedback = {}
    /\ phase = "account"
    /\ nread = 0
    /\ report = <<>>
    /\ solo = EmptyMap
    /\ failed = FALSE

(***************************************************************************)
(* One action per mutator call on an existing account.  A panic ends the   *)
(* process: no call follows it.                                            *)
(***************************************************************************)
Alive == IF last.op = "new" THEN TRUE ELSE last.result.kind # "Panic"

DepositCall(c, tx_id, amount) ==
    /\ Alive
    /\ UNCHANGED ledger_vars
    /\ c \in DOMAIN clients
    /\ LET r == deposit(clients[c], tx_id, amount)
       IN  /\ clients' = [clients EXCEPT ![c] = r.client]
           /\ last' = [op |-> "deposit", client |-> c, tx_id |-> tx_id,
                       amount |-> amount, result |-> r.result,
                       before |-> clients[c]]
    /\ UNCHANGED <<recorded, chargedback>>

\* the deposits of Spec keep total within MaxBalance
Deposit(c, tx_id, amount) ==
    /\ c \in DOMAIN clients
    /\ deposit(clients[c], tx_id, amount).client.total <= MaxBalance
    /\ DepositCall(c, tx_id, amount)

Withdraw(c, amount) ==
    /\ Alive
    /\ UNCHANGED ledger_vars
    /\ c \in DOMAIN clients
    /\ LET r == withdraw(clients[c], amount)
       IN  /\ clients' = [clients EXCEPT ![c] = r.client]
           /\ last' = [op |-> "withdraw", client |-> c, amount |-> amount,
                       result |-> r.result, before |-> clients[c]]
    /\ UNCHANGED <<recorded, chargedback>>

Dispute(c, tx_id) ==
    /\ Alive
    /\ UNCHANGED ledger_vars
    /\ c \in DOMAIN clients
    /\ LET r == dispute(clients[c], tx_id)
       IN  /\ clients' = [clients EXCEPT ![c] = r.client]
           /\ last' = [op |-> "dispute", client |-> c, tx_id |-> tx_id,
                       result |-> r.result, before |-> clients[c],
                       after_resolve |-> /\ last.op = "resolve"
                                         /\ last.client = c
                                         /\ last.tx_id = tx_id
                                         /\ last.result = Ok]
           /\ recorded' =
                IF r.result = Ok /\ tx_id \in DOMAIN clients[c].deposit_transactions
                THEN Insert(recorded, <<c, tx_id>>,
                            clients[c].deposit_transactions[tx_id])
                ELSE recorded
    /\ UNCHANGED chargedback

Resolve(c, tx_id) ==
    /\ Alive
    /\ UNCHANGED ledger_vars
    /\ c \in DOMAIN clients
    /\ LET r == resolve(clients[c], tx_id)
       IN  /\ clients' = [clients EXCEPT ![c] = r.client]
           /\ last' = [op |-> "resolve", client |-> c, tx_id |-> tx_id,
                       result |-> r.result, before |-> clients[c]]
           /\ recorded' =
                IF r.result = Ok THEN Remove(recorded, <<c, tx_id>>)
                ELSE recorded
    /\ UNCHANGED chargedback

Chargeback(c, tx_id) ==
    /\ Alive
    /\ UNCHANGED ledger_vars
    /\ c \in DOMAIN clients
    /\ LET r == chargeback(clients[c], tx_id)
       IN  /\ clients' = [clients EXCEPT ![c] = r.client]
           /\ last' = [op |-> "chargeback", client |-> c, tx_id |-> tx_id,
                       result |-> r.result, before |-> clients[c]]
           /\ chargedback' =
                IF r.result = Ok THEN chargedback \cup {<<c, tx_id>>}
                ELSE chargedback
           /\ recorded' =
                IF r.result = Ok THEN Remove(recorded, <<c, tx_id>>)
                ELSE recorded

Next ==
    \/ \E c \in DOMAIN clients, tx_id \in TxIds, amount \in Amounts :
          Deposit(c, tx_id, amount)
    \/ \E c \in DOMAIN clients, amount \in Amounts : Withdraw(c, amount)
    \/ \E c \in DOMAIN clients, tx_id \in TxIds : Dispute(c, tx_id)
    \/ \E c \in DOMAIN clients, tx_id \in TxIds : Resolve(c, tx_id)
    \/ \E c \in DOMAIN clients, tx_id \in TxIds : Chargeback(c, tx_id)

Spec == Init /\ [][Next]_vars

(***************************************************************************)
(* The account over the whole range of the money type: deposits and        *)
(* withdrawals of small amounts and of amounts up to DecimalMax, with no    *)
(* bound on the balances but the range of Decimal itself.                  *)
(***************************************************************************)
RangeAmounts == Amounts \cup {DecimalMax - 1, DecimalMax}

RangeNext ==
    \/ \E c \in DOMAIN clients, tx_id \in TxIds, amount \in RangeAmounts :
          DepositCall(c, tx_id, amount)
    \/ \E c \in DOMAIN clients, amount \in RangeAmounts : Withdraw(c, amount)

SpecRange == Init /\ [][RangeNext]_vars

(***************************************************************************)
(* process_transactions (src/src/lib.rs): the rows of the input are read   *)
(* one after the other; a row that fails to parse or to validate is        *)
(* logged and skipped, every other row is dispatched to a mutator of its   *)
(* client's account, which is created on first sight; when the input is    *)
(* exhausted the accounts are written out, sorted by client id.            *)
(*                                                                         *)
(* A row is [tx_type, client, tx, amount]: tx is an i64 and amount an      *)
(* Option<Decimal>.  U32_MAX stands for u32::MAX: the tx ids 0..U32_MAX    *)
(* convert to u32 and U32_MAX + 1 does not.  Writing to the output is      *)
(* taken to succeed.                                                       *)
(***************************************************************************)
\* client ids are 1..MaxClient
MaxClient == 2
\* the input has at most MaxRows rows
MaxRows == 3
\* format!("{:.4}", value): the number of fractional digits written
FractionDigits == 4

ClientIds == 1..MaxClient

U32_MAX == MaxTx

TransactionTypes == {"deposit", "withdrawal", "dispute", "resolve", "chargeback"}

None == [some |-> FALSE]

Some(value) == [some |-> TRUE, value |-> value]

\* a negative id, the largest id that fits u32, the smallest that does not
RowTxs == {-1, U32_MAX, U32_MAX + 1}

\* no amount, a negative one, zero, a positive one
RowAmounts == {None, Some(-1), Some(0), Some(MaxAmount)}

Rows == [tx_type : TransactionTypes, client : ClientIds, tx : RowTxs,
         amount : RowAmounts]

\* the validation errors of ClientTransactionError
InvalidTransactionId(client_id, tx) ==
    [kind |-> "InvalidTransactionId", client_id |-> client_id, tx |-> tx]

MissingAmount(client_id, tx_type, tx) ==
    [kind |-> "MissingAmount", client_id |-> client_id, tx_type |-> tx_type,
     tx |-> tx]

InvalidAmount(client_id, tx, amount) ==
    [kind |-> "InvalidAmount", client_id |-> client_id, tx |-> tx,
     amount |-> amount]

\* ValidatedTransaction
WithAmount(tx, amount) == [variant |-> "WithAmount", tx |-> tx, amount |-> amount]

NoAmount(tx) == [variant |-> "NoAmount", tx |-> tx]

Valid(value) == [ok |-> TRUE, value |-> value]

Invalid(error) == [ok |-> FALSE, error |-> error]

\* validate_transaction with "v > 0" weakened to "v >= 0"
validate_allows_zero(tx_type, client_id, tx, amount) ==
    IF tx < 0 THEN Invalid(InvalidTransactionId(client_id, tx))
    ELSE IF tx > U32_MAX THEN Invalid(InvalidTransactionId(client_id, tx))
    ELSE IF tx_type \in {"deposit", "withdrawal"}
    THEN IF amount.some /\ amount.value >= 0
         THEN Valid(WithAmount(tx, amount.value))
         ELSE IF amount.some
         THEN Invalid(InvalidAmount(client_id, tx, amount.value))
         ELSE Invalid(MissingAmount(client_id, tx_type, tx))
    ELSE Valid(NoAmount(tx))

validate_transaction(tx_type, client_id, tx, amount) ==
    IF tx < 0 THEN Invalid(InvalidTransactionId(client_id, tx))
    ELSE IF tx > U32_MAX THEN Invalid(InvalidTransactionId(client_id, tx))
    ELSE IF tx_type \in {"deposit", "withdrawal"}
    THEN IF amount.some /\ amount.value > 0
         THEN Valid(WithAmount(tx, amount.value))
         ELSE IF amount.some
         THEN Invalid(InvalidAmount(client_id, tx, amount.value))
         ELSE Invalid(MissingAmount(client_id, tx_type, tx))
    ELSE Valid(NoAmount(tx))

\* an entry() that keeps no account but the one it returns
entry_forgets_others(cs, client_id) ==
    IF client_id \in DOMAIN cs
    THEN Insert(EmptyMap, client_id, cs[client_id])
    ELSE Insert(EmptyMap, client_id, new(client_id))

\* an entry() that hands out a fresh account every time
entry_always_inserts(cs, client_id) == Insert(cs, client_id, new(client_id))

\* an entry() that starts an account with a live dispute afresh
entry_refreshes_disputed(cs, client_id) ==
    IF client_id \in DOMAIN cs
    THEN IF DOMAIN cs[client_id].disputed_transactions = {} THEN cs
         ELSE Insert(cs, client_id, new(client_id))
    ELSE Insert(cs, client_id, new(client_id))

\* clients.entry(client_id).or_insert_with(|| Client::new(client_id))
entry_or_insert_with(cs, client_id) ==
    IF client_id \in DOMAIN cs THEN cs ELSE Insert(cs, client_id, new(client_id))

\* a dispatch whose withdrawal arm records the tx id of a successful
\* withdrawal as if it were a deposit
dispatch_records_withdrawal(client, tx_type, validated) ==
    IF tx_type = "deposit" /\ validated.variant = "WithAmount"
    THEN deposit(client, validated.tx, validated.amount)
    ELSE IF tx_type = "withdrawal" /\ validated.variant = "WithAmount"
    THEN LET r == withdraw(client, validated.amount)
         IN  IF r.result = Ok
             THEN [r EXCEPT !.client.deposit_transactions =
                                Insert(@, validated.tx, validated.amount)]
             ELSE r
    ELSE IF tx_type = "dispute" /\ validated.variant = "NoAmount"
    THEN dispute(client, validated.tx)
    ELSE IF tx_type = "resolve" /\ validated.variant = "NoAmount"
    THEN resolve(client, validated.tx)
    ELSE IF tx_type = "chargeback" /\ validated.variant = "NoAmount"
    THEN chargeback(client, validated.tx)
    ELSE Err([kind |-> "ValidationMismatch"], client)

\* match (tx_type, validated): the mutator call of a validated row
dispatch(client, tx_type, validated) ==
    IF tx_type = "deposit" /\ validated.variant = "WithAmount"
    THEN deposit(client, validated.tx, validated.amount)
    ELSE IF tx_type = "withdrawal" /\ validated.variant = "WithAmount"
    THEN withdraw(client, validated.amount)
    ELSE IF tx_type = "dispute" /\ validated.variant = "NoAmount"
    THEN dispute(client, validated.tx)
    ELSE IF tx_type = "resolve" /\ validated.variant = "NoAmount"
    THEN resolve(client, validated.tx)
    ELSE IF tx_type = "chargeback" /\ validated.variant = "NoAmount"
    THEN chargeback(client, validated.tx)
    ELSE Err([kind |-> "ValidationMismatch"], client)

\* if let Err(e) = client.deposit(..) { error!(..) }: an error of a mutator is
\* logged and the loop goes on; only a panic leaves the loop
after_row(result) == IF result.kind = "Panic" THEN "aborted" ELSE "read"

\* one row applied to one account: what the row does to the account it names
apply(client, row) ==
    LET v == validate_transaction(row.tx_type, row.client, row.tx, row.amount)
    IN  IF v.ok THEN dispatch(client, row.tx_type, v.value).client ELSE client

\* the vector written as collected, without the sort
sort_keeps_order(s) == s

\* clients_sorted.sort_by_key(|client| client.id): a stable sort
RECURSIVE sort_by_key(_)
sort_by_key(s) ==
    IF s = <<>> THEN <<>>
    ELSE LET sorted == sort_by_key(SubSeq(s, 1, Len(s) - 1))
             x == s[Len(s)]
             k == Cardinality({i \in 1..Len(sorted) : sorted[i].id <= x.id})
         IN  SubSeq(sorted, 1, k) \o <<x>> \o SubSeq(sorted, k + 1, Len(sorted))

\* the last k digits of n, with leading zeros
RECURSIVE Digits(_, _)
Digits(n, k) ==
    IF k = 0 THEN "" ELSE Digits(n \div 10, k - 1) \o ToString(n % 10)

\* format!("{:.4}", value), for a value counted in units of 10^-4
format_decimal(value) ==
    LET scale == 10 ^ FractionDigits
        magnitude == IF value < 0 THEN -value ELSE value
    IN  (IF value < 0 THEN "-" ELSE "")
            \o ToString(magnitude \div scale) \o "."
            \o Digits(magnitude % scale, FractionDigits)

Header == <<"client", "available", "held", "total", "locked">>

\* the record written for one account
Record(client) ==
    << ToString(client.id),
       format_decimal(client.available),
       format_decimal(client.held),
       format_decimal(client.total),
       IF client.locked THEN "true" ELSE "false" >>

\* clients.values(): the accounts in the iteration order of the HashMap,
\* which is any order
Values(cs) ==
    LET n == Cardinality(DOMAIN cs)
    IN  { [i \in 1..n |-> cs[order[i]]] :
            order \in { f \in [1..n -> DOMAIN cs] :
                          \A c \in DOMAIN cs : \E i \in 1..n : f[i] = c } }

LedgerInit ==
    /\ clients = EmptyMap
    /\ last = [op |-> "new"]
    /\ recorded = EmptyMap
    /\ chargedback = {}
    /\ phase = "read"
    /\ nread = 0
    /\ report = <<>>
    /\ solo = [c \in ClientIds |-> new(c)]
    /\ failed = FALSE

\* a row that does not deserialize: logged and skipped
MalformedRow ==
    /\ phase = "read"
    /\ nread < MaxRows
    /\ nread' = nread + 1
    /\ last' = [op |-> "malformed"]
    /\ UNCHANGED <<clients, recorded, chargedback, phase, report, solo, failed>>

\* one iteration of the loop on a row that deserializes
ProcessRow(row) ==
    /\ phase = "read"
    /\ nread < MaxRows
    /\ nread' = nread + 1
    /\ solo' = [solo EXCEPT ![row.client] = apply(@, row)]
    /\ LET v == validate_transaction(row.tx_type, row.client, row.tx, row.amount)
       IN  IF ~v.ok
           THEN /\ last' = [op |-> "dropped", row |-> row, result |-> v.error]
                /\ UNCHANGED <<clients, phase, failed>>
           ELSE LET cs == entry_or_insert_with(clients, row.client)
                    r == dispatch(cs[row.client], row.tx_type, v.value)
                IN  /\ clients' = [cs EXCEPT ![row.client] = r.client]
                    /\ last' = [op |-> "applied", row |-> row,
                                result |-> r.result]
                    /\ phase' = after_row(r.result)
                    /\ failed' = (failed \/ r.result # Ok)
    /\ UNCHANGED <<recorded, chargedback, report>>

\* the reader has no more rows
EndOfInput ==
    /\ phase = "read"
    /\ phase' = "report"
    /\ UNCHANGED <<clients, last, recorded, chargedback, nread, report, solo,
                   failed>>

\* the header, then one record per account in the order of the sorted vector
WriteReport ==
    /\ phase = "report"
    /\ \E values \in Values(clients) :
          LET clients_sorted == sort_by_key(values)
          IN  report' = <<Header>> \o
                  [i \in 1..Len(clients_sorted) |-> Record(clients_sorted[i])]
    /\ phase' = "done"
    /\ UNCHANGED <<clients, last, recorded, chargedback, nread, solo, failed>>

LedgerNext ==
    \/ MalformedRow
    \/ \E row \in Rows : ProcessRow(row)
    \/ EndOfInput
    \/ WriteReport

SpecLedger == LedgerInit /\ [][LedgerNext]_vars

(***************************************************************************)
(* process_transactions on deposits whose amounts go up to the largest     *)
(* Decimal: the additions of Client::deposit can overflow.                 *)
(***************************************************************************)
RangeRows ==
    [tx_type : {"deposit"}, client : ClientIds, tx : {U32_MAX},
     amount : {Some(v) : v \in RangeAmounts}]

LedgerRangeNext ==
    \/ MalformedRow
    \/ \E row \in RangeRows : ProcessRow(row)
    \/ EndOfInput
    \/ WriteReport

SpecLedgerRange == LedgerInit /\ [][LedgerRangeNext]_vars

\* the loop and the report are straight-line code: the run does not stop
\* while a step is possible
SpecLedgerRangeFair == SpecLedgerRange /\ WF_vars(LedgerRangeNext)

(***************************************************************************)
(* process_transactions on the rows of one client in which every deposit   *)
(* and withdrawal carries a tx id of its own, here the number of its row,  *)
(* and a dispute, resolve or chargeback names the tx id of an earlier row. *)
(***************************************************************************)
FeedRows(n) ==
    [tx_type : {"deposit", "withdrawal"}, client : {TestClientId},
     tx : {n + 1}, amount : {Some(v) : v \in Amounts}]
    \cup
    [tx_type : TransactionTypes \ {"deposit", "withdrawal"},
     client : {TestClientId}, tx : 1..n, amount : {None}]

FeedNext ==
    \/ MalformedRow
    \/ \E row \in FeedRows(nread) : ProcessRow(row)
    \/ EndOfInput
    \/ WriteReport

SpecLedgerFeed == LedgerInit /\ [][FeedNext]_vars

(***************************************************************************)
(* process_transactions of the binary (src/src/main.rs).  Its rows have a  *)
(* u32 tx id (utils.rs), so a row with a negative or too large id does not *)
(* deserialize; there is no validation step: the account is looked up or   *)
(* created first, then the row is dispatched on its type, and a deposit or *)
(* withdrawal without an amount makes the function return an error.  The   *)
(* accounts are kept in a BTreeMap, which iterates in key order.           *)
(***************************************************************************)
MainRows ==
    [tx_type : TransactionTypes, client : ClientIds, tx : {U32_MAX},
     amount : RowAmounts]

\* utils::MissingAmount
missing_amount_error(tx_type, tx) ==
    [kind |-> "MissingAmount", tx_type |-> tx_type, tx |-> tx]

\* match tx_type, for a row that carries the amount its type needs
main_dispatch(client, row) ==
    IF row.tx_type = "deposit"
    THEN deposit(client, row.tx, row.amount.value)
    ELSE IF row.tx_type = "withdrawal"
    THEN withdraw(client, row.amount.value)
    ELSE IF row.tx_type = "dispute" THEN dispute(client, row.tx)
    ELSE IF row.tx_type = "resolve" THEN resolve(client, row.tx)
    ELSE chargeback(client, row.tx)

\* clients.values() of a BTreeMap: the accounts by ascending key
BTreeValues(cs) ==
    [i \in 1..Cardinality(DOMAIN cs) |->
        cs[CHOOSE c \in DOMAIN cs :
              Cardinality({d \in DOMAIN cs : d <= c}) = i]]

MainInit == LedgerInit

\* one iteration of the loop on a row that deserialized
MainProcessRow(row) ==
    /\ phase = "read"
    /\ nread < MaxRows
    /\ nread' = nread + 1
    /\ LET cs == entry_or_insert_with(clients, row.client)
       IN  IF row.tx_type \in {"deposit", "withdrawal"} /\ ~row.amount.some
           THEN /\ clients' = cs
                /\ last' = [op |-> "returned", row |-> row,
                            result |-> missing_amount_error(row.tx_type, row.tx)]
                /\ phase' = "failed"
           ELSE LET r == main_dispatch(cs[row.client], row)
                IN  /\ clients' = [cs EXCEPT ![row.client] = r.client]
                    /\ last' = [op |-> "applied", row |-> row,
                                result |-> r.result]
                    /\ phase' = after_row(r.result)
    /\ UNCHANGED <<recorded, chargedback, report, solo, failed>>

\* the header, then one record per account in key order
MainWriteReport ==
    /\ phase = "report"
    /\ LET values == BTreeValues(clients)
       IN  report' = <<Header>> \o
               [i \in 1..Len(values) |-> Record(values[i])]
    /\ phase' = "done"
    /\ UNCHANGED <<clients, last, recorded, chargedback, nread, solo, failed>>

MainNext ==
    \/ MalformedRow
    \/ \E row \in MainRows : MainProcessRow(row)
    \/ EndOfInput
    \/ MainWriteReport

SpecMain == MainInit /\ [][MainNext]_vars

(***************************************************************************)
(* What a step says about the call it made.  Every step of Next is one     *)
(* mutator call and sets last to that call, so last' names the call of the *)
(* step, clients the accounts before it and clients' the accounts after.   *)
(***************************************************************************)
Called(op, c) == last'.op = op /\ last'.client = c

Failed == last'.result.kind # "Ok"

LockedErrors == {"AccountLocked", "AccountAlreadyLocked"}

\* C1: for every account, in every state reached by any sequence of
\* deposit, withdraw, dispute, resolve and chargeback calls, succeeding or
\* failing, from Client::new: total = available + held, exactly.
C1_TotalIsAvailablePlusHeld ==
    \A c \in DOMAIN clients :
        clients[c].total = clients[c].available + clients[c].held

\* C1 witness: a locked account after a chargeback, with another dispute
\* still holding funds and available driven below zero.
C1_Witness ==
    \E c \in DOMAIN clients :
        /\ clients[c].locked
        /\ clients[c].held > 0
        /\ clients[c].available < 0
        /\ clients[c].total = clients[c].available + clients[c].held

\* C2: once an account is locked, every later deposit, withdraw, dispute,
\* resolve or chargeback on it returns an error and leaves available, held,
\* total, locked, the deposit map and the live dispute map unchanged.
C2_LockedAccountIsFrozen ==
    [][\A c \in DOMAIN clients :
          clients[c].locked =>
              /\ clients'[c] = clients[c]
              /\ last'.client = c => Failed]_vars

\* C2 witness: a deposit was called on a locked account that still holds
\* disputed funds, and was rejected.
C2_Witness ==
    /\ last.op = "deposit"
    /\ last.before.locked
    /\ last.before.held > 0
    /\ last.result.kind # "Ok"
    /\ clients[last.client] = last.before

\* C3: locked turns from false to true only in the step of a successful
\* chargeback on that account; once true it is never false again; and an
\* AccountLocked or AccountAlreadyLocked error is returned only after an
\* earlier successful chargeback on the same account.
C3_LockedOnlyByChargeback ==
    [][\A c \in DOMAIN clients :
          /\ (~clients[c].locked /\ clients'[c].locked) =>
                 (Called("chargeback", c) /\ last'.result = Ok)
          /\ clients[c].locked => clients'[c].locked
          /\ (last'.client = c /\ last'.result.kind \in LockedErrors) =>
                 \E tx \in TxIds : <<c, tx>> \in chargedback]_vars

\* C3 witness: a successful chargeback has just locked an unlocked account.
C3_Witness ==
    /\ last.op = "chargeback"
    /\ last.result = Ok
    /\ ~last.before.locked
    /\ clients[last.client].locked

\* C4: whenever a mutator returns an error of any kind, the account (and
\* every other account) is identical to what it was before the call.
C4_ErrorChangesNothing ==
    [][Failed => clients' = clients]_vars

\* C4 witness: scenario B, a withdrawal larger than a positive available
\* balance failed with InsufficientAvailableFunds and the balances are kept.
C4_Witness ==
    /\ last.op = "withdraw"
    /\ last.result.kind = "InsufficientAvailableFunds"
    /\ last.before.available > 0
    /\ clients[last.client] = last.before

\* C5: on an unlocked account, dispute(tx) of a tx with a live dispute fails
\* with AlreadyInDispute and moves nothing to held a second time; resolve(tx)
\* and chargeback(tx) of a tx with no live dispute fail with NotInDispute.
C5_DisputeBoundary ==
    [][\A c \in DOMAIN clients :
          (~clients[c].locked /\ last'.client = c) =>
              /\ ( /\ last'.op = "dispute"
                   /\ last'.tx_id \in DOMAIN clients[c].disputed_transactions )
                 => /\ last'.result = AlreadyInDispute(c, last'.tx_id)
                    /\ clients'[c] = clients[c]
              /\ ( /\ last'.op \in {"resolve", "chargeback"}
                   /\ last'.tx_id \notin DOMAIN clients[c].disputed_transactions )
                 => last'.result = NotInDispute(c, last'.tx_id)]_vars

\* C5 witness: a second dispute of a tx whose dispute is live was rejected
\* with AlreadyInDispute, the amount being held once.
C5_Witness ==
    /\ last.op = "dispute"
    /\ last.result.kind = "AlreadyInDispute"
    /\ clients[last.client].held =
           clients[last.client].disputed_transactions[last.tx_id]

\* C6: dispute(tx) on an unlocked account, for a deposited tx with no live
\* dispute, always succeeds whatever the available balance: available
\* decreases by the deposit's recorded amount (and may become negative), held
\* increases by it, total is unchanged and disputes[tx] is set to it.
C6_DisputeAlwaysMovesDeposit ==
    [][\A c \in DOMAIN clients :
          ( /\ Called("dispute", c)
            /\ ~clients[c].locked
            /\ last'.tx_id \in DOMAIN clients[c].deposit_transactions
            /\ last'.tx_id \notin DOMAIN clients[c].disputed_transactions )
          => LET tx == last'.tx_id
                 amount == clients[c].deposit_transactions[tx]
             IN  /\ last'.result = Ok
                 /\ clients'[c].available = clients[c].available - amount
                 /\ clients'[c].held = clients[c].held + amount
                 /\ clients'[c].total = clients[c].total
                 /\ clients'[c].disputed_transactions =
                        Insert(clients[c].disputed_transactions, tx, amount)]_vars

\* C6 witness: scenario C, a dispute succeeded although less than the
\* deposit was available, and left available negative.
C6_Witness ==
    /\ last.op = "dispute"
    /\ last.result = Ok
    /\ last.before.available < last.before.deposit_transactions[last.tx_id]
    /\ clients[last.client].available < 0

\* C7: withdraw(amount) on an unlocked account succeeds exactly when
\* available >= amount; then available and total decrease by amount and held
\* and both maps are unchanged; when available < amount it fails with
\* InsufficientAvailableFunds, so held funds are never withdrawn.
C7_WithdrawIffAvailable ==
    [][\A c \in DOMAIN clients :
          (Called("withdraw", c) /\ ~clients[c].locked) =>
              IF clients[c].available >= last'.amount
              THEN /\ last'.result = Ok
                   /\ clients'[c] =
                        [clients[c] EXCEPT
                           !.available = @ - last'.amount,
                           !.total = @ - last'.amount]
              ELSE /\ last'.result = InsufficientAvailableFunds(c)
                   /\ clients'[c] = clients[c]]_vars

\* C7 witness: a withdrawal of exactly the available balance succeeded
\* while other funds were held.
C7_Witness ==
    /\ last.op = "withdraw"
    /\ last.result = Ok
    /\ last.before.available = last.amount
    /\ last.before.held > 0
    /\ clients[last.client].held = last.before.held

\* C8: a successful resolve(tx) comes after a successful dispute(tx) that is
\* still open, whatever happened in between; it decreases held and increases
\* available by the amount recorded at dispute time, leaves total unchanged
\* and removes disputes[tx]; right after dispute(tx) it restores available,
\* held, total and the dispute map to their values before the dispute.
C8_ResolveReturnsDisputedAmount ==
    [][\A c \in DOMAIN clients :
          (Called("resolve", c) /\ last'.result = Ok) =>
              LET tx == last'.tx_id
              IN  /\ <<c, tx>> \in DOMAIN recorded
                  /\ clients'[c].held = clients[c].held - recorded[<<c, tx>>]
                  /\ clients'[c].available =
                         clients[c].available + recorded[<<c, tx>>]
                  /\ clients'[c].total = clients[c].total
                  /\ tx \in DOMAIN clients[c].disputed_transactions
                  /\ clients'[c].disputed_transactions =
                         Remove(clients[c].disputed_transactions, tx)
                  /\ ( /\ last.op = "dispute"
                       /\ last.client = c
                       /\ last.tx_id = tx
                       /\ last.result = Ok )
                     => /\ clients'[c].available = last.before.available
                        /\ clients'[c].held = last.before.held
                        /\ clients'[c].total = last.before.total
                        /\ clients'[c].disputed_transactions =
                               last.before.disputed_transactions]_vars

\* C8 witness: a resolve succeeded for a tx whose deposit entry was
\* overwritten with another amount while the dispute was open.
C8_Witness ==
    /\ last.op = "resolve"
    /\ last.result = Ok
    /\ last.before.deposit_transactions[last.tx_id] #
           last.before.disputed_transactions[last.tx_id]
    /\ clients[last.client].available =
           last.before.available + last.before.disputed_transactions[last.tx_id]

\* C9: a successful chargeback(tx) decreases held and total by the amount
\* recorded for the live dispute of tx, leaves available unchanged, sets
\* locked and removes disputes[tx]; every other live dispute stays in place.
C9_ChargebackEffect ==
    [][\A c \in DOMAIN clients :
          (Called("chargeback", c) /\ last'.result = Ok) =>
              LET tx == last'.tx_id
              IN  /\ <<c, tx>> \in DOMAIN recorded
                  /\ tx \in DOMAIN clients[c].disputed_transactions
                  /\ clients[c].disputed_transactions[tx] = recorded[<<c, tx>>]
                  /\ clients'[c] =
                        [clients[c] EXCEPT
                           !.held = @ - recorded[<<c, tx>>],
                           !.total = @ - recorded[<<c, tx>>],
                           !.locked = TRUE,
                           !.disputed_transactions = Remove(@, tx)]]_vars

\* C9 witness: a chargeback succeeded while another dispute was live, and
\* that dispute is still live afterwards.
C9_Witness ==
    /\ last.op = "chargeback"
    /\ last.result = Ok
    /\ clients[last.client].locked
    /\ DOMAIN clients[last.client].disputed_transactions # {}
    /\ DOMAIN clients[last.client].disputed_transactions =
           (DOMAIN last.before.disputed_transactions) \ {last.tx_id}

\* the place of tx in the dispute lifecycle of account c
Status(c, tx) ==
    IF <<c, tx>> \in chargedback THEN "ChargedBack"
    ELSE IF tx \in DOMAIN clients[c].disputed_transactions THEN "Disputed"
    ELSE "NoDispute"

\* C10: per tx id the dispute lifecycle is NoDispute -> Disputed (a
\* successful dispute), Disputed -> NoDispute (a successful resolve) or
\* Disputed -> ChargedBack (a successful chargeback) and nothing else; in
\* NoDispute on an unlocked account, so also after a resolve, dispute(tx) of
\* a deposited tx succeeds; after a successful chargeback no dispute, resolve
\* or chargeback on any tx id of the account succeeds.
C10_DisputeLifecycle ==
    [][\A c \in DOMAIN clients :
          /\ \A tx \in TxIds :
                LET s == Status(c, tx)
                    t == Status(c, tx)'
                    did(op) == /\ Called(op, c)
                               /\ last'.tx_id = tx
                               /\ last'.result = Ok
                IN  /\ did("dispute") <=> (s = "NoDispute" /\ t = "Disputed")
                    /\ did("resolve") <=> (s = "Disputed" /\ t = "NoDispute")
                    /\ did("chargeback") <=> (s = "Disputed" /\ t = "ChargedBack")
                    /\ s # t => <<s, t>> \in { <<"NoDispute", "Disputed">>,
                                               <<"Disputed", "NoDispute">>,
                                               <<"Disputed", "ChargedBack">> }
                    /\ ( /\ Called("dispute", c)
                         /\ last'.tx_id = tx
                         /\ s = "NoDispute"
                         /\ ~clients[c].locked
                         /\ tx \in DOMAIN clients[c].deposit_transactions )
                       => last'.result = Ok
          /\ ( /\ \E tx \in TxIds : <<c, tx>> \in chargedback
               /\ last'.client = c
               /\ last'.op \in {"dispute", "resolve", "chargeback"} )
             => Failed]_vars

\* C10 witness: right after a successful resolve(tx) on a still-unlocked
\* account, dispute(tx) succeeded again.
C10_Witness ==
    /\ last.op = "dispute"
    /\ last.result = Ok
    /\ last.after_resolve
    /\ ~clients[last.client].locked
    /\ last.tx_id \in DOMAIN clients[last.client].disputed_transactions

\* C11: the locked check comes before every other failure condition: on a
\* locked account deposit, withdraw, dispute and resolve return AccountLocked
\* and chargeback returns AccountAlreadyLocked, also when the tx id is
\* unknown, not in dispute or already in dispute, or the funds do not suffice.
C11_LockedCheckFirst ==
    [][\A c \in DOMAIN clients :
          (clients[c].locked /\ last'.client = c) =>
              /\ last'.op \in {"deposit", "withdraw", "dispute", "resolve"}
                     => last'.result = AccountLocked(c)
              /\ last'.op = "chargeback"
                     => last'.result = AccountAlreadyLocked(c)]_vars

\* C11 witness: a withdrawal of more than is available, on a locked account,
\* was answered with AccountLocked and not InsufficientAvailableFunds.
C11_Witness ==
    /\ last.op = "withdraw"
    /\ last.before.locked
    /\ last.before.available < last.amount
    /\ last.result = AccountLocked(last.client)

\* C13: a deposit entry is created once per tx id and never updated: once
\* deposits[tx] is recorded its value is the same in every later state, and
\* no key is ever removed from the deposit map.
C13_DepositEntryNeverChanges ==
    [][\A c \in DOMAIN clients :
          \A tx \in DOMAIN clients[c].deposit_transactions :
              /\ tx \in DOMAIN clients'[c].deposit_transactions
              /\ clients'[c].deposit_transactions[tx] =
                     clients[c].deposit_transactions[tx]]_vars

\* C14: in every state reached from a fresh account through the five
\* mutators with positive amounts, held >= disputes[tx] for every live
\* dispute, and InsufficientHeldFunds has not been returned.
C14_HeldCoversEveryDispute ==
    /\ \A c \in DOMAIN clients :
          \A tx \in DOMAIN clients[c].disputed_transactions :
              clients[c].held >= clients[c].disputed_transactions[tx]
    /\ last.op \in {"resolve", "chargeback"}
          => last.result.kind # "InsufficientHeldFunds"

\* C14 witness: a resolve passed the held guard with held exactly equal to
\* the disputed amount, on an account whose available balance was negative.
C14_Witness ==
    /\ last.op = "resolve"
    /\ last.result = Ok
    /\ last.before.held = last.before.disputed_transactions[last.tx_id]
    /\ last.before.available < 0

\* C12: deposit(tx_id, amount) fails only on AccountLocked: on an unlocked
\* account it succeeds for every tx id and every positive amount of the
\* money type, whatever the balances and whether or not tx_id was deposited
\* before; available and total increase by amount, held is unchanged and
\* deposits[tx_id] = amount.
C12_DepositAlwaysSucceeds ==
    [][\A c \in DOMAIN clients :
          (Called("deposit", c) /\ ~clients[c].locked) =>
              /\ last'.result = Ok
              /\ clients'[c] =
                    [clients[c] EXCEPT
                       !.available = @ + last'.amount,
                       !.total = @ + last'.amount,
                       !.deposit_transactions =
                           Insert(@, last'.tx_id, last'.amount)]]_vars

(***************************************************************************)
(* What a step of process_transactions says about the row it read.         *)
(***************************************************************************)
\* the step read a row that deserialized
ReadRow == nread' # nread /\ last'.op \in {"applied", "dropped"}

DisputeFamily == {"dispute", "resolve", "chargeback"}

\* what the specification calls a validation violation of a deposit or
\* withdrawal row, or of the tx id of any row
Violation(row) ==
    IF row.tx < 0 \/ row.tx > U32_MAX THEN TRUE
    ELSE IF row.tx_type \notin {"deposit", "withdrawal"} THEN FALSE
    ELSE IF row.amount.some THEN row.amount.value <= 0
    ELSE TRUE

\* the position of account c in the report: the number of accounts whose
\* id is not above c's
Rank(c) == Cardinality({d \in DOMAIN clients : d <= c})

\* C15: a mutator failure on one row never stops the run: for every input,
\* the rows after a failed one are still applied and the function always
\* gets to write the report once the input is exhausted.
C15_EveryRunWritesTheReport == <>(phase = "done")

\* C16: a row whose tx id is negative or above the u32 range, or a deposit
\* or withdrawal row whose amount is missing, zero or negative, is dropped
\* before dispatch: no mutator runs, no account is created for its client,
\* and the loop goes on to the next row; so deposit and withdraw only ever
\* receive an amount > 0.
C16_ViolationsAreDropped ==
    [][ReadRow =>
          /\ Violation(last'.row) =>
                /\ last'.op = "dropped"
                /\ clients' = clients
                /\ phase' = "read"
          /\ (last'.op = "applied"
                /\ last'.row.tx_type \in {"deposit", "withdrawal"}) =>
                /\ last'.row.amount.some
                /\ last'.row.amount.value > 0]_vars

\* C16 witness: the first row of the input, a deposit of zero, was dropped
\* and left no account behind.
C16_Witness ==
    /\ last.op = "dropped"
    /\ last.row.tx_type = "deposit"
    /\ last.row.amount = Some(0)
    /\ last.row.tx = U32_MAX
    /\ last.row.client \notin DOMAIN clients
    /\ phase = "read"

\* C17: a dispute, resolve or chargeback row that carries an amount is a
\* validation violation and is dropped: it never reaches the mutator and
\* changes no account.
C17_AmountOnDisputeRowIsDropped ==
    [][(ReadRow /\ last'.row.tx_type \in DisputeFamily
          /\ last'.row.amount.some) =>
          /\ last'.op = "dropped"
          /\ clients' = clients]_vars

\* C18: the report is the header followed by exactly one record per
\* account that exists at the end of the run, in strictly ascending order
\* of client id, whatever the order in which the accounts were created or
\* the map iterated; so the rows are a function of the input alone.
C18_ReportSortedByClientId ==
    phase = "done" =>
        /\ Len(report) = 1 + Cardinality(DOMAIN clients)
        /\ report[1] = Header
        /\ \A c \in DOMAIN clients :
              report[1 + Rank(c)] = Record(clients[c])
        /\ \A i \in 2..Len(report) : \A j \in 2..Len(report) :
              i < j => \E c \in DOMAIN clients : \E d \in DOMAIN clients :
                          /\ c < d
                          /\ report[i][1] = ToString(c)
                          /\ report[j][1] = ToString(d)

\* C18 witness: the report of a run in which account 2 was created before
\* account 1.
C18_Witness ==
    /\ phase = "done"
    /\ nread = 2
    /\ DOMAIN clients = {1, 2}
    /\ last.op = "applied"
    /\ last.row.client = 1
    /\ report[2][1] = "1"
    /\ report[3][1] = "2"

\* C19: a row for one client, applied or not, leaves every field of every
\* other account unchanged; a dispute, resolve or chargeback by client B
\* naming a tx id that only another client deposited fails for B, with
\* UnknownTransaction (dispute) or NotInDispute (resolve, chargeback) when
\* B's account is not locked.
C19_OtherAccountsUntouched ==
    [][nread' # nread =>
          /\ \A c \in DOMAIN clients :
                (last'.op = "applied" => c # last'.row.client) =>
                    /\ c \in DOMAIN clients'
                    /\ clients'[c] = clients[c]
          /\ (/\ last'.op = "applied"
              /\ last'.row.tx_type \in DisputeFamily
              /\ \E a \in DOMAIN clients :
                    /\ a # last'.row.client
                    /\ last'.row.tx \in DOMAIN clients[a].deposit_transactions
              /\ \/ last'.row.client \notin DOMAIN clients
                 \/ last'.row.tx \notin
                       DOMAIN clients[last'.row.client].deposit_transactions) =>
                /\ last'.result # Ok
                /\ ~clients'[last'.row.client].locked =>
                      last'.result.kind =
                          IF last'.row.tx_type = "dispute"
                          THEN "UnknownTransaction" ELSE "NotInDispute"]_vars

\* C19 witness: client 2 disputed the tx id that only client 1 deposited,
\* got UnknownTransaction, and client 1's deposit is as it was.
C19_Witness ==
    /\ last.op = "applied"
    /\ last.row.tx_type = "dispute"
    /\ last.row.client = 2
    /\ last.result.kind = "UnknownTransaction"
    /\ DOMAIN clients = {1, 2}
    /\ clients[2] = new(2)
    /\ last.row.tx \in DOMAIN clients[1].deposit_transactions
    /\ clients[1].available = MaxAmount
    /\ clients[1].held = 0

\* C20: at every point of the run each account is what a fresh account
\* becomes when only the rows carrying its client id are applied to it, in
\* input order; the rows of the other clients, wherever they are
\* interleaved, make no difference.
C20_AccountIsFoldOfOwnRows ==
    \A c \in ClientIds :
        IF c \in DOMAIN clients THEN clients[c] = solo[c]
        ELSE solo[c] = new(c)

\* C20 witness: the end of a run of three rows, two deposits for client 1
\* and one for client 2, the last row being for client 1.
C20_Witness ==
    /\ phase = "done"
    /\ nread = 3
    /\ DOMAIN clients = {1, 2}
    /\ clients[1].total = 2 * MaxAmount
    /\ clients[2].total = MaxAmount
    /\ last.row.client = 1

\* the sum of the amounts of a map
RECURSIVE SumOf(_)
SumOf(m) ==
    IF DOMAIN m = {} THEN 0
    ELSE LET k == CHOOSE x \in DOMAIN m : TRUE
         IN  m[k] + SumOf(Remove(m, k))

\* C22: in every state reached through the five mutators with positive
\* deposit amounts, held is the sum of the amounts in the live dispute map,
\* so held >= 0 and held = 0 when no dispute is live; every key of the live
\* dispute map is a key of the deposit map.
C22_HeldIsSumOfLiveDisputes ==
    \A c \in DOMAIN clients :
        /\ clients[c].held = SumOf(clients[c].disputed_transactions)
        /\ clients[c].held >= 0
        /\ DOMAIN clients[c].disputed_transactions = {} => clients[c].held = 0
        /\ DOMAIN clients[c].disputed_transactions
               \subseteq DOMAIN clients[c].deposit_transactions

\* C22 witness: two disputes are live at once and held is the sum of both.
C22_Witness ==
    \E c \in DOMAIN clients :
        /\ Cardinality(DOMAIN clients[c].disputed_transactions) = 2
        /\ clients[c].held = SumOf(clients[c].disputed_transactions)
        /\ clients[c].held > MaxAmount

\* C23: resolve(tx) and chargeback(tx) move the amount copied into
\* disputes[tx] when the dispute was opened, not the current deposits[tx]:
\* when tx is deposited again with another amount while the dispute is
\* live, the release or reversal still uses the amount of dispute time.
C23_MovesAmountOfDisputeTime ==
    [][\A c \in DOMAIN clients :
          (/\ last'.op \in {"resolve", "chargeback"}
           /\ last'.client = c
           /\ last'.result = Ok) =>
              LET tx == last'.tx_id
                  moved == clients[c].held - clients'[c].held
              IN  /\ <<c, tx>> \in DOMAIN recorded
                  /\ moved = recorded[<<c, tx>>]
                  /\ last'.op = "resolve" =>
                        clients'[c].available - clients[c].available = moved
                  /\ last'.op = "chargeback" =>
                        clients[c].total - clients'[c].total = moved
                  /\ clients[c].deposit_transactions[tx] # recorded[<<c, tx>>]
                        => moved # clients[c].deposit_transactions[tx]]_vars

\* C23 witness: a chargeback succeeded for a tx deposited again with a
\* larger amount while its dispute was live, and total went down by the
\* amount of dispute time.
C23_Witness ==
    /\ last.op = "chargeback"
    /\ last.result = Ok
    /\ last.before.deposit_transactions[last.tx_id] >
           last.before.disputed_transactions[last.tx_id]
    /\ clients[last.client].total =
           last.before.total - last.before.disputed_transactions[last.tx_id]

\* C24: an account that is not locked has total >= 0 in every reachable
\* state (deposit and withdrawal amounts being positive); total becomes
\* negative only in the step of a successful chargeback, hence only in a
\* locked account.
C24_TotalNegativeOnlyByChargeback ==
    [][\A c \in DOMAIN clients :
          /\ ~clients'[c].locked => clients'[c].total >= 0
          /\ (clients[c].total >= 0 /\ clients'[c].total < 0) =>
                /\ Called("chargeback", c)
                /\ last'.result = Ok
                /\ clients'[c].locked]_vars

\* C24 witness: a successful chargeback has just taken total below zero.
C24_Witness ==
    /\ last.op = "chargeback"
    /\ last.result = Ok
    /\ last.before.total >= 0
    /\ clients[last.client].total < 0
    /\ clients[last.client].locked

\* C21: an account exists exactly for the client ids named by at least one
\* row that passed validation: the first such row creates it, with zero
\* balances and unlocked, even when the mutator of that row fails; it is
\* never removed afterwards and an existing account is never replaced by a
\* fresh one.
C21_AccountsCreatedOnceAndKept ==
    [][/\ DOMAIN clients \subseteq DOMAIN clients'
       /\ ~ReadRow => DOMAIN clients' = DOMAIN clients
       /\ ReadRow =>
             LET row == last'.row
                 c == row.client
             IN  /\ DOMAIN clients' =
                        DOMAIN clients \cup
                            (IF Violation(row) THEN {} ELSE {c})
                 /\ (c \notin DOMAIN clients /\ c \in DOMAIN clients') =>
                        IF last'.result = Ok
                        THEN /\ row.tx_type = "deposit"
                             /\ clients'[c] =
                                   [new(c) EXCEPT
                                      !.available = row.amount.value,
                                      !.total = row.amount.value,
                                      !.deposit_transactions =
                                          Insert(EmptyMap, row.tx,
                                                 row.amount.value)]
                        ELSE clients'[c] = new(c)
                 /\ (c \in DOMAIN clients /\ c \in DOMAIN clients') =>
                        /\ last'.result # Ok => clients'[c] = clients[c]
                        /\ clients[c] # new(c) => clients'[c] # new(c)]_vars

\* C21 witness: the first row of the input, a dispute of an unknown tx id,
\* failed and left the fresh account of its client behind.
C21_Witness ==
    /\ nread = 1
    /\ last.op = "applied"
    /\ last.row.tx_type = "dispute"
    /\ last.result.kind = "UnknownTransaction"
    /\ DOMAIN clients = {last.row.client}
    /\ clients[last.row.client] = new(last.row.client)

\* C25: only deposits are disputable: the tx id of a withdrawal row is
\* never recorded in the account, whether the withdrawal succeeds or fails,
\* so a dispute naming a tx id that no deposit of the account carries fails
\* and changes nothing; the error is UnknownTransaction when the account is
\* not locked.
C25_WithdrawalIsNotDisputable ==
    [][ReadRow =>
          LET row == last'.row
              c == row.client
              before == IF c \in DOMAIN clients THEN clients[c] ELSE new(c)
          IN  /\ (last'.op = "applied" /\ row.tx_type = "withdrawal") =>
                    /\ clients'[c].deposit_transactions =
                           before.deposit_transactions
                    /\ clients'[c].disputed_transactions =
                           before.disputed_transactions
              /\ (/\ last'.op = "applied"
                  /\ row.tx_type = "dispute"
                  /\ row.tx \notin DOMAIN before.deposit_transactions) =>
                    /\ last'.result # Ok
                    /\ clients'[c] = before
                    /\ ~before.locked =>
                          last'.result.kind = "UnknownTransaction"]_vars

\* C25 witness: row 1 deposited, row 2 was a withdrawal that succeeded
\* (available is below the deposit and nothing is held), and row 3, a
\* dispute naming tx id 2, got UnknownTransaction.
C25_Witness ==
    /\ nread = 3
    /\ last.op = "applied"
    /\ last.row.tx_type = "dispute"
    /\ last.row.tx = 2
    /\ last.result.kind = "UnknownTransaction"
    /\ DOMAIN clients[TestClientId].deposit_transactions = {1}
    /\ clients[TestClientId].held = 0
    /\ clients[TestClientId].available <
           clients[TestClientId].deposit_transactions[1]

\* C26: in the process_transactions of the binary a deposit or withdrawal
\* row without an amount is not fatal: the row is skipped, the rows after
\* it are still applied and the report is still written.
C26_MissingAmountIsNotFatal ==
    [][(/\ nread' # nread
        /\ last'.op \in {"applied", "returned"}
        /\ last'.row.tx_type \in {"deposit", "withdrawal"}
        /\ ~last'.row.amount.some) =>
          phase' = "read"]_vars

=============================================================================
